---- MODULE Spec2Model ----
(***************************************************************************)
(* Model of ledger/src/blockstore_meta.rs: ShredIndex / Index presence     *)
(* sets, ErasureMeta (ranges, recoverability status, coding-shred check)   *)
(* and SlotMeta (is_full, clear_unconfirmed_slot, constructors).           *)
(***************************************************************************)
EXTENDS Integers, Sequences, FiniteSets

VARIABLES index, meta, last, shred, check_ret, slot_meta, full_ret, cleared

vars == <<index, meta, last, shred, check_ret, slot_meta, full_ret, cleared>>

(* ------------------------------ bounds -------------------------------- *)

\* Largest num_data / num_coding of an erasure config.
MaxShards == 2

\* Largest set_index / first_coding_index of an erasure set.
MaxStart == 1

\* Stand-in for u64::MAX: u64 values are 0..U64_MAX, arithmetic wraps at U64_MAX + 1.
U64_MAX == 7

\* Largest slot number of the stored slot metas and of their next_slots.
MaxSlot == 1

\* Largest position written to a ShredIndex checked on its own.
MaxIndexPos == 4

\* Shred positions: every position of every range, and one beyond the last.
Positions == 0..(MaxStart + MaxShards)

U64 == 0..U64_MAX

\* Option<T>: None, or Some(x).
None == <<>>

Some(x) == <<x>>

(* ------------------------ ShredIndex and Index ------------------------ *)

\* struct ShredIndex { index: BTreeSet<u64> }
ShredIndex_default == {}

\* Index::new(slot): both presence sets empty.
Index_new(slot) == [slot |-> slot, data |-> ShredIndex_default, coding |-> ShredIndex_default]

\* Range<u64>  start..end
Range(start, end) == [start |-> start, end |-> end]

\* The positions a Range<u64> contains.
RangeSet(r) == r.start..(r.end - 1)

\* ShredIndex::present_in_bounds
present_in_bounds(self, bounds) == Cardinality({i \in self : i \in RangeSet(bounds)})

\* ShredIndex::is_present
is_present(self, idx) == idx \in self

\* A set_present whose removal branch does nothing.
set_present_no_remove(self, idx, presence) == IF presence THEN self \cup {idx} ELSE self

\* ShredIndex::set_present
set_present(self, idx, presence) == IF presence THEN self \cup {idx} ELSE self \ {idx}

\* A set_many_present that stops after the first pair.
set_many_present_first_only(self, presence) ==
    IF presence = <<>> THEN self
    ELSE set_present(self, Head(presence)[1], Head(presence)[2])

\* ShredIndex::set_many_present: the pairs applied in iteration order.
RECURSIVE set_many_present(_, _)
set_many_present(self, presence) ==
    IF presence = <<>> THEN self
    ELSE set_many_present(set_present(self, Head(presence)[1], Head(presence)[2]), Tail(presence))

\* range.zip(repeat(flag)) as the test builds it.
RECURSIVE zip_repeat(_, _)
zip_repeat(r, flag) ==
    IF r.start >= r.end THEN <<>>
    ELSE <<(<<r.start, flag>>)>> \o zip_repeat(Range(r.start + 1, r.end), flag)

(* ------------------------------ Shred --------------------------------- *)

\* ErasureConfig::new(num_data, num_coding)
ErasureConfig_new(num_data, num_coding) == [num_data |-> num_data, num_coding |-> num_coding]

\* The shreds observed: type, coding header, fec set index, first coding index.
Shreds ==
    [shred_type : {"Data", "Code"},
     num_data_shreds : 0..MaxShards,
     num_coding_shreds : 0..MaxShards,
     fec_set_index : 0..MaxStart,
     first_coding_index : 0..MaxStart]

\* Shred::first_coding_index: None for a data shred, the shred's value for a coding shred.
first_coding_index(s) == IF s.shred_type = "Data" THEN None ELSE Some(s.first_coding_index)

(* ---------------------------- ErasureMeta ----------------------------- *)

\* enum ErasureMetaStatus
CanRecover == <<"CanRecover">>

DataFull == <<"DataFull">>

StillNeed(n) == <<"StillNeed", n>>

\* A subtraction that does not saturate.
saturating_sub_plain(a, b) == a - b

\* usize::saturating_sub
saturating_sub(a, b) == IF a >= b THEN a - b ELSE 0

\* ErasureMeta::from_coding_shred
from_coding_shred(s) ==
    IF s.shred_type = "Data" THEN None
    ELSE IF first_coding_index(s) = None THEN None
    ELSE Some([set_index |-> s.fec_set_index,
               config |-> ErasureConfig_new(s.num_data_shreds, s.num_coding_shreds),
               first_coding_index |-> first_coding_index(s)[1],
               unused_size |-> 0])

\* A check that compares first_coding_index as well.
check_coding_shred_strict(self, s) ==
    LET other == from_coding_shred(s) IN
    IF other = None THEN FALSE
    ELSE self = [other[1] EXCEPT !.unused_size = self.unused_size]

\* ErasureMeta::check_coding_shred
check_coding_shred(self, s) ==
    LET other == from_coding_shred(s) IN
    IF other = None THEN FALSE
    ELSE self = [other[1] EXCEPT !.unused_size = self.unused_size,
                                 !.first_coding_index = self.first_coding_index]

\* ErasureMeta::data_shreds_indices
data_shreds_indices(self) == Range(self.set_index, self.set_index + self.config.num_data)

\* A coding range that always starts at the stored first_coding_index.
coding_shreds_indices_no_fallback(self) ==
    Range(self.first_coding_index, self.first_coding_index + self.config.num_coding)

\* ErasureMeta::coding_shreds_indices
coding_shreds_indices(self) ==
    LET first == IF self.first_coding_index = 0 THEN self.set_index
                 ELSE self.first_coding_index
    IN Range(first, first + self.config.num_coding)

\* A status that tests num_needed before data_missing.
status_needed_first(self, idx) ==
    LET num_coding == present_in_bounds(idx.coding, coding_shreds_indices(self))
        num_data == present_in_bounds(idx.data, data_shreds_indices(self))
        data_missing == saturating_sub(self.config.num_data, num_data)
        num_needed == saturating_sub(self.config.num_data, num_data + num_coding)
    IN IF num_needed = 0 THEN CanRecover
       ELSE IF data_missing = 0 THEN DataFull
       ELSE StillNeed(num_needed)

\* A status that needs num_data + 1 fragments before it reports CanRecover.
status_off_by_one(self, idx) ==
    LET num_coding == present_in_bounds(idx.coding, coding_shreds_indices(self))
        num_data == present_in_bounds(idx.data, data_shreds_indices(self))
        data_missing == saturating_sub(self.config.num_data, num_data)
        num_needed == saturating_sub(self.config.num_data + 1, num_data + num_coding)
    IN IF data_missing = 0 THEN DataFull
       ELSE IF num_needed = 0 THEN CanRecover
       ELSE StillNeed(num_needed)

\* ErasureMeta::status
status(self, idx) ==
    LET num_coding == present_in_bounds(idx.coding, coding_shreds_indices(self))
        num_data == present_in_bounds(idx.data, data_shreds_indices(self))
        data_missing == saturating_sub(self.config.num_data, num_data)
        num_needed == saturating_sub(self.config.num_data, num_data + num_coding)
    IN IF data_missing = 0 THEN DataFull
       ELSE IF num_needed = 0 THEN CanRecover
       ELSE StillNeed(num_needed)

\* Records stored before first_coding_index was populated: the field is 0 and
\* the size field holds the shard size.
LegacyMetas ==
    [set_index : 0..MaxStart,
     config : {ErasureConfig_new(d, c) : d \in 0..MaxShards, c \in 0..MaxShards},
     first_coding_index : {0},
     unused_size : {0, 1}]

\* The erasure metas the blockstore derives from the coding shreds it observes.
DerivedMetas == {from_coding_shred(s)[1] : s \in {x \in Shreds : x.shred_type = "Code"}}

(* ------------------------------ SlotMeta ------------------------------ *)

\* SlotMeta::default()
SlotMeta_default ==
    [slot |-> 0, consumed |-> 0, received |-> 0, first_shred_timestamp |-> 0,
     last_index |-> 0, parent_slot |-> 0, next_slots |-> <<>>,
     is_connected |-> FALSE, completed_data_indexes |-> {}]

\* SlotMeta::new
SlotMeta_new(slot, parent_slot) ==
    [SlotMeta_default EXCEPT !.slot = slot, !.parent_slot = parent_slot,
                             !.is_connected = (slot = 0), !.last_index = U64_MAX]

\* SlotMeta::new_orphan
new_orphan(slot) == SlotMeta_new(slot, U64_MAX)

\* A reset that forgets the recorded children.
clear_unconfirmed_slot_drop_next(self) == new_orphan(self.slot)

\* SlotMeta::clear_unconfirmed_slot: a fresh orphan of the same slot takes
\* self's next_slots, then replaces self.
clear_unconfirmed_slot(self) ==
    LET new_self == [new_orphan(self.slot) EXCEPT !.next_slots = self.next_slots]
    IN new_self

\* u64 addition: the wrapped sum, and whether it overflowed (a panic in a
\* build with overflow checks).
add_u64(a, b) == [sum |-> (a + b) % (U64_MAX + 1), overflow |-> a + b > U64_MAX]

\* An is_full without the early return on the unknown-length sentinel.
is_full_no_sentinel(self) ==
    LET next == add_u64(self.last_index, 1) IN
    [value |-> self.consumed = next.sum,
     logged |-> self.consumed > next.sum,
     fault |-> next.overflow]

\* SlotMeta::is_full: the value returned, whether the anomaly datapoint was
\* logged, and whether last_index + 1 overflowed on the way.
is_full(self) ==
    IF self.last_index = U64_MAX
    THEN [value |-> FALSE, logged |-> FALSE, fault |-> FALSE]
    ELSE LET next == add_u64(self.last_index, 1) IN
         [value |-> self.consumed = next.sum,
          logged |-> self.consumed > next.sum,
          fault |-> next.overflow]

(* ------------------- presence updates on one Index -------------------- *)

IdleShred == CHOOSE s \in Shreds : s.shred_type = "Data"

\* The variables a specification does not use stay at these values.
IdleIndex == index = Index_new(0) /\ last = <<>>

IdleCheck == shred = IdleShred /\ check_ret = None

IdleSlot == slot_meta = SlotMeta_default /\ full_ret = None /\ cleared = None

\* index.data_mut().set_present(p, b)
DataSetPresent(p, b) ==
    /\ index' = [index EXCEPT !.data = set_present(@, p, b)]
    /\ UNCHANGED <<meta, last, shred, check_ret, slot_meta, full_ret, cleared>>

\* index.coding_mut().set_present(p, b)
CodingSetPresent(p, b) ==
    /\ index' = [index EXCEPT !.coding = set_present(@, p, b)]
    /\ UNCHANGED <<meta, last, shred, check_ret, slot_meta, full_ret, cleared>>

\* index.data_mut().set_many_present(data_indexes.zip(repeat(b)))
DataSetManyPresent(b) ==
    /\ index' = [index EXCEPT
                    !.data = set_many_present(@, zip_repeat(data_shreds_indices(meta), b))]
    /\ UNCHANGED <<meta, last, shred, check_ret, slot_meta, full_ret, cleared>>

\* index.coding_mut().set_many_present(coding_indexes.zip(repeat(b)))
CodingSetManyPresent(b) ==
    /\ index' = [index EXCEPT
                    !.coding = set_many_present(@, zip_repeat(coding_shreds_indices(meta), b))]
    /\ UNCHANGED <<meta, last, shred, check_ret, slot_meta, full_ret, cleared>>

\* An erasure meta derived from a coding shred, and the empty Index of its slot.
Init ==
    /\ meta \in DerivedMetas
    /\ index = Index_new(0)
    /\ last = <<>>
    /\ IdleCheck
    /\ IdleSlot

Next ==
    \/ \E p \in Positions, b \in BOOLEAN : DataSetPresent(p, b)
    \/ \E p \in Positions, b \in BOOLEAN : CodingSetPresent(p, b)
    \/ \E b \in BOOLEAN : DataSetManyPresent(b)
    \/ \E b \in BOOLEAN : CodingSetManyPresent(b)

Spec == Init /\ [][Next]_vars

(* ----------------------- claims on ErasureMeta ------------------------ *)

\* Present data positions inside [set_index, set_index + num_data).
NumDataIn == Cardinality({p \in index.data :
                 meta.set_index <= p /\ p < meta.set_index + meta.config.num_data})

\* Start of the parity range: set_index for a record with first_coding_index = 0.
CodingStart == IF meta.first_coding_index = 0 THEN meta.set_index ELSE meta.first_coding_index

\* Present coding positions inside [start, start + num_coding).
NumCodingIn == Cardinality({p \in index.coding :
                   CodingStart <= p /\ p < CodingStart + meta.config.num_coding})

\* C1: status is DataFull iff nd >= D, otherwise CanRecover iff nd + nc >= D,
\* otherwise StillNeed(D - (nd + nc)); StillNeed(0) is never returned.
C1_StatusByCounts ==
    LET D == meta.config.num_data
        st == status(meta, index)
    IN /\ st \in {DataFull, CanRecover} \cup {StillNeed(n) : n \in 1..D}
       /\ (st = DataFull) <=> (NumDataIn >= D)
       /\ (st = CanRecover) <=> (NumDataIn < D /\ NumDataIn + NumCodingIn >= D)
       /\ (NumDataIn + NumCodingIn < D) => st = StillNeed(D - (NumDataIn + NumCodingIn))

\* C1 witness: data and parity both partly present and the set is recoverable.
C1_Witness ==
    /\ NumDataIn = 1 /\ NumCodingIn = 1 /\ meta.config.num_data = 2
    /\ status(meta, index) = CanRecover

\* The (position, TRUE) pairs of a set of positions, in some order.
RECURSIVE MarkAll(_)
MarkAll(A) ==
    IF A = {} THEN <<>>
    ELSE LET p == CHOOSE x \in A : TRUE IN <<(<<p, TRUE>>)>> \o MarkAll(A \ {p})

\* The absent positions of the set's data range and of its coding range.
AbsentData == RangeSet(data_shreds_indices(meta)) \ index.data

AbsentCoding == RangeSet(coding_shreds_indices(meta)) \ index.coding

\* C2: when status is StillNeed(n), marking k <= n distinct absent positions of
\* the data range or of the coding range present gives StillNeed(n - k) while
\* k < n, and CanRecover or DataFull when k = n.
C2_StillNeedCountsDown ==
    LET st == status(meta, index) IN
    st[1] = "StillNeed" =>
        \A A \in SUBSET AbsentData, B \in SUBSET AbsentCoding :
            LET n == st[2]
                k == Cardinality(A) + Cardinality(B)
                after == [index EXCEPT !.data = set_many_present(@, MarkAll(A)),
                                       !.coding = set_many_present(@, MarkAll(B))]
            IN k <= n =>
                 IF k < n THEN status(meta, after) = StillNeed(n - k)
                 ELSE status(meta, after) \in {CanRecover, DataFull}

\* C2 witness: one of two needed fragments has been marked, one more is needed,
\* and an absent position of either kind remains.
C2_Witness ==
    /\ meta.config.num_data = 2
    /\ NumDataIn + NumCodingIn = 1
    /\ status(meta, index) = StillNeed(1)
    /\ AbsentData # {} /\ AbsentCoding # {}

\* C3: while every data position of the set is present, status is DataFull,
\* whatever parity positions are present.
C3_DataFullWhateverParity ==
    RangeSet(data_shreds_indices(meta)) \subseteq index.data => status(meta, index) = DataFull

\* C3 witness: all data present, parity partly present and partly absent.
C3_Witness ==
    /\ meta.config.num_data = 2
    /\ RangeSet(data_shreds_indices(meta)) \subseteq index.data
    /\ NumCodingIn = 1 /\ AbsentCoding # {}
    /\ status(meta, index) = DataFull

\* C4: with every parity position present and k data positions of the set
\* absent, 1 <= k <= min(D, C), status is CanRecover.
C4_CanRecoverAfterDataRemoval ==
    LET D == meta.config.num_data
        C == meta.config.num_coding
        k == Cardinality(AbsentData)
    IN (AbsentCoding = {} /\ 1 <= k /\ k <= D /\ k <= C) => status(meta, index) = CanRecover

\* C4 witness: all parity present and min(D, C) = 2 data positions removed.
C4_Witness ==
    /\ meta.config.num_data = 2 /\ meta.config.num_coding = 2
    /\ AbsentCoding = {} /\ Cardinality(AbsentData) = 2
    /\ status(meta, index) = CanRecover

\* C10: the coding range is [start, start + num_coding) with start = set_index
\* when first_coding_index = 0, the data range is [set_index, set_index +
\* num_data), and for a legacy record with set_index > 0 a parity position
\* outside [set_index, set_index + num_coding) never changes the status.
C10_CodingRangeFallback ==
    /\ coding_shreds_indices(meta) = Range(CodingStart, CodingStart + meta.config.num_coding)
    /\ data_shreds_indices(meta) = Range(meta.set_index, meta.set_index + meta.config.num_data)
    /\ status(meta, index)
         = status(meta, [index EXCEPT !.coding =
               {p \in @ : CodingStart <= p /\ p < CodingStart + meta.config.num_coding}])
    /\ (meta.first_coding_index = 0 /\ meta.set_index > 0) =>
         \A p \in Positions, b \in BOOLEAN :
             (p < meta.set_index \/ p >= meta.set_index + meta.config.num_coding) =>
                 status(meta, [index EXCEPT !.coding = set_present(@, p, b)])
                   = status(meta, index)

\* C10 witness: a legacy record with set_index > 0, parity present below
\* set_index and at set_index + num_coding, and none of it counted.
C10_Witness ==
    /\ meta.first_coding_index = 0 /\ meta.set_index > 0
    /\ meta.config.num_data = 2 /\ meta.config.num_coding >= 1
    /\ (meta.set_index - 1) \in index.coding
    /\ (meta.set_index + meta.config.num_coding) \in index.coding
    /\ status(meta, index) = StillNeed(2)

(* ------------------------ one ShredIndex alone ------------------------ *)

IndexPositions == 0..MaxIndexPos

\* The (position, flag) pairs handed to set_many_present: up to two of them.
PresencePairs == IndexPositions \X BOOLEAN

PresenceInputs == {<<>>} \cup {<<x>> : x \in PresencePairs}
                    \cup {<<x, y>> : x \in PresencePairs, y \in PresencePairs}

\* The flag of the last call on each position, after the calls of a set_many_present.
RECURSIVE LastFlags(_, _)
LastFlags(l, presence) ==
    IF presence = <<>> THEN l
    ELSE LastFlags([l EXCEPT ![Head(presence)[1]] = Some(Head(presence)[2])], Tail(presence))

\* data.set_present(p, b); last records the flag of the call.
IndexSetPresent(p, b) ==
    /\ index' = [index EXCEPT !.data = set_present(@, p, b)]
    /\ last' = [last EXCEPT ![p] = Some(b)]
    /\ UNCHANGED <<meta, shred, check_ret, slot_meta, full_ret, cleared>>

\* data.set_many_present(presence)
IndexSetManyPresent(presence) ==
    /\ index' = [index EXCEPT !.data = set_many_present(@, presence)]
    /\ last' = LastFlags(last, presence)
    /\ UNCHANGED <<meta, shred, check_ret, slot_meta, full_ret, cleared>>

\* Index::new: nothing present, no call made yet.
InitIndex ==
    /\ index = Index_new(0)
    /\ last = [p \in IndexPositions |-> None]
    /\ meta = CHOOSE m \in DerivedMetas : TRUE
    /\ IdleCheck
    /\ IdleSlot

NextIndex ==
    \/ \E p \in IndexPositions, b \in BOOLEAN : IndexSetPresent(p, b)
    \/ \E presence \in PresenceInputs : IndexSetManyPresent(presence)

SpecIndex == InitIndex /\ [][NextIndex]_vars

\* C9: set_present(p, b) makes is_present(p) = b, leaves every other position
\* as it was and is idempotent; after any sequence of calls is_present(p) is
\* the flag of the last call on p, false if there was none.
C9_SetPresentLastWins ==
    /\ \A p \in IndexPositions : is_present(index.data, p) = (last[p] = Some(TRUE))
    /\ \A p \in IndexPositions, b \in BOOLEAN :
          LET after == set_present(index.data, p, b) IN
          /\ is_present(after, p) = b
          /\ \A q \in IndexPositions : q # p => is_present(after, q) = is_present(index.data, q)
          /\ set_present(after, p, b) = after

\* C9 witness: one position last set present, one last set absent, one never set.
C9_Witness ==
    /\ last[0] = Some(FALSE) /\ ~is_present(index.data, 0)
    /\ last[1] = Some(TRUE) /\ is_present(index.data, 1)
    /\ last[2] = None /\ ~is_present(index.data, 2)

(* ---------------- coding shreds against a stored meta ----------------- *)

\* self.check_coding_shred(&s) on the stored erasure meta
CheckCodingShred(s) ==
    /\ shred' = s
    /\ check_ret' = Some(check_coding_shred(meta, s))
    /\ UNCHANGED <<index, meta, last, slot_meta, full_ret, cleared>>

\* ErasureMeta::from_coding_shred(&s), stored when it is Some
StoreFromCodingShred(s) ==
    /\ from_coding_shred(s) # None
    /\ meta' = from_coding_shred(s)[1]
    /\ shred' = s
    /\ check_ret' = None
    /\ UNCHANGED <<index, last, slot_meta, full_ret, cleared>>

\* A stored erasure meta: derived from a coding shred, or a legacy record.
InitShred ==
    /\ meta \in DerivedMetas \cup LegacyMetas
    /\ IdleCheck
    /\ IdleIndex
    /\ IdleSlot

NextShred ==
    \/ \E s \in Shreds : CheckCodingShred(s)
    \/ \E s \in Shreds : StoreFromCodingShred(s)

SpecShred == InitShred /\ [][NextShred]_vars

\* C7: check_coding_shred is true iff the shred is a coding shred whose
\* (num_data, num_coding) and fec set index equal the stored config and
\* set_index; it does not depend on the shred's first coding index, on the
\* stored first_coding_index or on the stored size, and is false for data shreds.
C7_CheckCodingShred ==
    check_ret # None =>
      /\ check_ret[1] = (/\ shred.shred_type = "Code"
                         /\ shred.num_data_shreds = meta.config.num_data
                         /\ shred.num_coding_shreds = meta.config.num_coding
                         /\ shred.fec_set_index = meta.set_index)
      /\ shred.shred_type = "Data" => check_ret[1] = FALSE
      /\ \A f \in 0..MaxStart, g \in 0..MaxStart, z \in {0, 1} :
            check_coding_shred([meta EXCEPT !.first_coding_index = f, !.unused_size = z],
                               [shred EXCEPT !.first_coding_index = g]) = check_ret[1]

\* C7 witness: a coding shred accepted by a legacy record whose
\* first_coding_index and size differ from what the shred derives.
C7_Witness ==
    /\ check_ret = Some(TRUE)
    /\ shred.shred_type = "Code"
    /\ shred.first_coding_index # meta.first_coding_index
    /\ meta.unused_size # 0

(* ------------------------------ SlotMeta ------------------------------ *)

Slots == 0..MaxSlot

\* next_slots vectors: up to two children.
NextSlotsInputs == {<<>>} \cup {<<a>> : a \in Slots} \cup {<<a, b>> : a \in Slots, b \in Slots}

\* The slot metas read back from the store: any slot, counters, links and
\* flag; the timestamp and the completed indexes are all unset or all set.
SlotMetas ==
    {[slot |-> s, consumed |-> c, received |-> r, first_shred_timestamp |-> ts,
      last_index |-> l, parent_slot |-> p, next_slots |-> n, is_connected |-> conn,
      completed_data_indexes |-> IF ts = 0 THEN {} ELSE {0}] :
        s \in Slots, c \in U64, r \in {0, 1}, ts \in {0, 1}, l \in U64,
        p \in Slots \cup {U64_MAX}, n \in NextSlotsInputs, conn \in BOOLEAN}

\* slot_meta = SlotMeta::new(slot, parent_slot)
New(slot, parent_slot) ==
    /\ slot_meta' = SlotMeta_new(slot, parent_slot)
    /\ full_ret' = None
    /\ cleared' = None
    /\ UNCHANGED <<index, meta, last, shred, check_ret>>

\* slot_meta = SlotMeta::new_orphan(slot)
NewOrphan(slot) ==
    /\ slot_meta' = new_orphan(slot)
    /\ full_ret' = None
    /\ cleared' = None
    /\ UNCHANGED <<index, meta, last, shred, check_ret>>

\* slot_meta.clear_unconfirmed_slot(); cleared keeps the record it replaced.
ClearUnconfirmedSlot ==
    /\ slot_meta' = clear_unconfirmed_slot(slot_meta)
    /\ full_ret' = None
    /\ cleared' = Some(slot_meta)
    /\ UNCHANGED <<index, meta, last, shred, check_ret>>

\* slot_meta.is_full(): takes &self, the record stays as it is.
IsFull ==
    /\ full_ret' = Some(is_full(slot_meta))
    /\ cleared' = None
    /\ UNCHANGED <<index, meta, last, shred, check_ret, slot_meta>>

\* slot_meta.consumed = v
SetConsumed(v) ==
    /\ slot_meta' = [slot_meta EXCEPT !.consumed = v]
    /\ full_ret' = None
    /\ cleared' = None
    /\ UNCHANGED <<index, meta, last, shred, check_ret>>

\* slot_meta.received = v
SetReceived(v) ==
    /\ slot_meta' = [slot_meta EXCEPT !.received = v]
    /\ full_ret' = None
    /\ cleared' = None
    /\ UNCHANGED <<index, meta, last, shred, check_ret>>

\* slot_meta.next_slots = v
SetNextSlots(v) ==
    /\ slot_meta' = [slot_meta EXCEPT !.next_slots = v]
    /\ full_ret' = None
    /\ cleared' = None
    /\ UNCHANGED <<index, meta, last, shred, check_ret>>

\* Any stored slot meta.
InitSlot ==
    /\ slot_meta \in SlotMetas
    /\ full_ret = None
    /\ cleared = None
    /\ meta = CHOOSE m \in DerivedMetas : TRUE
    /\ IdleIndex
    /\ IdleCheck

NextSlot ==
    \/ \E s \in Slots, p \in Slots \cup {U64_MAX} : New(s, p)
    \/ \E s \in Slots : NewOrphan(s)
    \/ ClearUnconfirmedSlot
    \/ IsFull
    \/ \E v \in U64 : SetConsumed(v)
    \/ \E v \in {0, 1} : SetReceived(v)
    \/ \E v \in NextSlotsInputs : SetNextSlots(v)

SpecSlot == InitSlot /\ [][NextSlot]_vars

\* C5: after clear_unconfirmed_slot the record has the slot and the
\* next_slots it had before, and every other field has its fresh-orphan
\* value: it equals new_orphan(slot) with next_slots put back.
C5_ClearKeepsNextSlots ==
    cleared # None =>
      LET before == cleared[1] IN
      /\ slot_meta.slot = before.slot
      /\ slot_meta.next_slots = before.next_slots
      /\ slot_meta.consumed = 0 /\ slot_meta.received = 0
      /\ slot_meta.first_shred_timestamp = 0
      /\ slot_meta.completed_data_indexes = {}
      /\ slot_meta.last_index = U64_MAX /\ slot_meta.parent_slot = U64_MAX
      /\ slot_meta.is_connected = (before.slot = 0)
      /\ slot_meta = [new_orphan(before.slot) EXCEPT !.next_slots = before.next_slots]

\* C5 witness: clear_unconfirmed_slot has replaced a record with every field
\* populated and two children.
C5_Witness ==
    /\ cleared # None
    /\ cleared[1].slot = 1 /\ cleared[1].consumed = 5 /\ cleared[1].received = 1
    /\ cleared[1].first_shred_timestamp = 1 /\ cleared[1].last_index = 5
    /\ cleared[1].parent_slot = 0 /\ cleared[1].is_connected
    /\ cleared[1].completed_data_indexes = {0}
    /\ cleared[1].next_slots = <<1, 0>>
    /\ slot_meta.next_slots = <<1, 0>> /\ slot_meta.consumed = 0

\* What is_full has returned, against the record it was called on.
IsFullResult ==
    full_ret # None =>
      LET r == full_ret[1] IN
      /\ ~r.fault
      /\ r.value = (slot_meta.last_index # U64_MAX
                      /\ slot_meta.consumed = slot_meta.last_index + 1)
      /\ slot_meta.last_index = U64_MAX => ~r.value /\ ~r.logged
      /\ (slot_meta.last_index # U64_MAX /\ slot_meta.consumed > slot_meta.last_index + 1)
            => ~r.value /\ r.logged

\* C6: is_full returns true iff last_index # u64::MAX and consumed =
\* last_index + 1; it never overflows; with last_index = u64::MAX it returns
\* false; with consumed > last_index + 1 it returns false; and a call leaves
\* the record unchanged.
C6_IsFull == []IsFullResult /\ [][full_ret' # None => slot_meta' = slot_meta]_vars

\* C6 witness: is_full has returned false on the anomalous record with
\* consumed = last_index + 2.
C6_Witness ==
    /\ full_ret # None
    /\ slot_meta.last_index # U64_MAX
    /\ slot_meta.consumed = slot_meta.last_index + 2
    /\ full_ret[1].value = FALSE /\ full_ret[1].logged

(* ----------------- constructors and reset, nothing else --------------- *)

\* SlotMeta::new or SlotMeta::new_orphan, for any slot and parent.
InitCtor ==
    /\ slot_meta \in {SlotMeta_new(s, p) : s \in U64, p \in U64}
    /\ full_ret = None
    /\ cleared = None
    /\ meta = CHOOSE m \in DerivedMetas : TRUE
    /\ IdleIndex
    /\ IdleCheck

NextCtor ==
    \/ \E s \in U64, p \in U64 : New(s, p)
    \/ \E s \in U64 : NewOrphan(s)
    \/ ClearUnconfirmedSlot
    \/ IsFull

SpecCtor == InitCtor /\ [][NextCtor]_vars

\* C8: in every SlotMeta reached through new, new_orphan and
\* clear_unconfirmed_slot, is_connected implies is_full().
C8_ConnectedImpliesFull == slot_meta.is_connected => is_full(slot_meta).value

====
